---- MODULE Spec2Model ----
(***************************************************************************)
(* The lldb pretty-printers of src/data/lldb: the synthetic child          *)
(* providers Quaternion, Mat4, Vec2, Vec3, Vec4 and the summary function   *)
(* quaternion_summary.                                                     *)
(*                                                                         *)
(* Python values are records tagged by "type": None, int, str, float,      *)
(* SBValue, or "raise" for an exception leaving the call.  A Python str    *)
(* the code builds is a sequence of one-character strings, so that         *)
(* prefixes, separators and suffixes of a summary can be inspected.        *)
(* A float is sign, class and magnitude; finite magnitudes are counted in  *)
(* halves (mag = 3 is 1.5), which Python prints exactly as "1.5".          *)
(***************************************************************************)
EXTENDS Integers, Sequences, FiniteSets, TLC

VARIABLES
  valobj,   \* the inspected value in the debugged process, by its type
  self,     \* the fields of the synthetic provider instance, or NoSelf
  call,     \* the last call the debugger made: [op |-> ..., ...arguments]
  ret       \* what that call returned (or raised)

vars == <<valobj, self, call, ret>>

\* ---------------------------------------------------------------- bounds

\* Largest finite component magnitude, in halves (6 is 3.0).
MaxHalf == 6
\* Indices the debugger asks for range over -MaxIndex .. MaxIndex.
MaxIndex == 5

\* --------------------------------------------------------- Python values

None == [type |-> "None"]
PyInt(n) == [type |-> "int", int |-> n]
PyStr(s) == [type |-> "str", str |-> s]
Raise(e) == [type |-> "raise", exc |-> e]

NoSelf == [cls |-> "none"]
NoCall == [op |-> "none"]

\* ---------------------------------------------------------------- floats

FinFloat(neg, mag) == [cls |-> "fin", neg |-> neg, mag |-> mag]
Inf(neg) == [cls |-> "inf", neg |-> neg, mag |-> 0]
NaN == [cls |-> "nan", neg |-> FALSE, mag |-> 0]
PZero == FinFloat(FALSE, 0)

\* The component values of the model: 0.0, -0.0, +-0.5 .. +-MaxHalf/2,
\* +-inf and nan.
Floats ==
  {FinFloat(n, m) : n \in BOOLEAN, m \in 0..MaxHalf}
    \cup {Inf(n) : n \in BOOLEAN} \cup {NaN}

\* v == 0  (true of 0.0 and of -0.0, false of nan)
IsZero(v) == v.cls = "fin" /\ v.mag = 0

\* v < 0   (false of -0.0 and of nan)
IsNegative(v) == v.cls # "nan" /\ v.neg /\ ~IsZero(v)

\* v > 0
IsPositive(v) == v.cls # "nan" /\ ~v.neg /\ ~IsZero(v)

\* abs(v)
Abs(v) == [v EXCEPT !.neg = FALSE]

Digit(d) ==
  CASE d = 0 -> "0" [] d = 1 -> "1" [] d = 2 -> "2" [] d = 3 -> "3"
    [] d = 4 -> "4" [] d = 5 -> "5" [] d = 6 -> "6" [] d = 7 -> "7"
    [] d = 8 -> "8" [] d = 9 -> "9"

RECURSIVE NatStr(_)
\* The decimal digits of a natural number.
NatStr(n) == IF n < 10 THEN <<Digit(n)>> ELSE NatStr(n \div 10) \o <<Digit(n % 10)>>

\* format(n) of a Python int, as an f-string prints it.
IntStr(n) == IF n < 0 THEN <<"-">> \o NatStr(-n) ELSE NatStr(n)

\* format(v) of a Python float, as an f-string prints it: the shortest
\* repr, which always carries a fractional part for a finite value.
FloatStr(v) ==
  CASE v.cls = "nan" -> <<"n", "a", "n">>
    [] v.cls = "inf" -> (IF v.neg THEN <<"-">> ELSE <<>>) \o <<"i", "n", "f">>
    [] v.cls = "fin" ->
         (IF v.neg THEN <<"-">> ELSE <<>>)
           \o NatStr(v.mag \div 2) \o <<".">>
           \o (IF v.mag % 2 = 0 THEN <<"0">> ELSE <<"5">>)

\* ---------------------------------------------------- the debugger's API

\* An SBValue: a handle on the member at `path` under the inspected value,
\* labelled `name`; valid is SBValue.IsValid().
SBValue(valid, name, path) ==
  [type |-> "SBValue", valid |-> valid, name |-> name, path |-> path]

InvalidValue == SBValue(FALSE, <<>>, <<>>)

\* The handle the debugger passes in.
Root == SBValue(TRUE, <<>>, <<>>)

QFields == {"x", "y", "z", "w"}

\* Whether the debug information has member `m` under `path`.
HasMember(path, m) ==
  \/ path = <<>> /\ m = "0" /\ valobj.has0
  \/ path = <<"0">> /\ m \in QFields /\ valobj.has0
       /\ valobj.members[m].st # "absent"

\* SBValue.GetChildMemberWithName: the member, or an invalid SBValue; it
\* never raises.
GetChildMemberWithName(v, m) ==
  IF v.valid /\ HasMember(v.path, m)
  THEN SBValue(TRUE, <<m>>, Append(v.path, m))
  ELSE InvalidValue

\* SBValue.GetValue: the displayed text of a scalar, None for an invalid
\* handle.  The text is kept as what float() makes of it.
GetValue(v) ==
  IF v.valid /\ Len(v.path) = 2
  THEN LET m == valobj.members[v.path[2]]
       IN [type |-> "text", parses |-> m.st = "float", denotes |-> m.v]
  ELSE None

\* float(x): TypeError for None, ValueError for text that is no number.
PyFloat(x) ==
  IF x.type = "None" THEN Raise("TypeError")
  ELSE IF ~x.parses THEN Raise("ValueError")
  ELSE [type |-> "float", v |-> x.denotes]

\* SBValue.CreateValueFromData(name, v.GetData(), v.GetType()): a value
\* over the same data and type under a new label; invalid when v is.
CreateValueFromData(v, name) ==
  IF v.valid THEN SBValue(TRUE, name, v.path) ELSE InvalidValue

\* ------------------------------------------------------------ Quaternion

\* Quaternion.update
Quaternion_update(obj) ==
  LET vec == GetChildMemberWithName(obj, "0")
  IN [cls |-> "Quaternion",
      w |-> GetChildMemberWithName(vec, "x"),
      i |-> GetChildMemberWithName(vec, "y"),
      j |-> GetChildMemberWithName(vec, "z"),
      k |-> GetChildMemberWithName(vec, "w")]

\* Quaternion.__init__
Quaternion_init(obj) == Quaternion_update(obj)

\* Quaternion.num_children
Quaternion_num_children(q) == PyInt(4)

\* Quaternion.get_child_at_index written over a list of the four handles,
\* which a negative index reads from its end.
Quaternion_get_child_at_index_from_end(q, index) ==
  IF index >= 4 \/ index < -4 THEN None
  ELSE IF (index + 4) % 4 = 0 THEN CreateValueFromData(q.w, <<"w">>)
  ELSE IF (index + 4) % 4 = 1 THEN CreateValueFromData(q.i, <<"i">>)
  ELSE IF (index + 4) % 4 = 2 THEN CreateValueFromData(q.j, <<"j">>)
  ELSE CreateValueFromData(q.k, <<"k">>)

\* Quaternion.get_child_at_index
Quaternion_get_child_at_index(q, index) ==
  IF index < 0 \/ index >= 4 THEN None
  ELSE IF index = 0 THEN CreateValueFromData(q.w, <<"w">>)
  ELSE IF index = 1 THEN CreateValueFromData(q.i, <<"i">>)
  ELSE IF index = 2 THEN CreateValueFromData(q.j, <<"j">>)
  ELSE IF index = 3 THEN CreateValueFromData(q.k, <<"k">>)
  ELSE None

\* Quaternion.get_child_index with the indices of "j" and "k" exchanged.
Quaternion_get_child_index_swapped(name) ==
  IF name = <<"w">> THEN PyInt(0)
  ELSE IF name = <<"i">> THEN PyInt(1)
  ELSE IF name = <<"k">> THEN PyInt(2)
  ELSE IF name = <<"j">> THEN PyInt(3)
  ELSE PyInt(-1)

\* Quaternion.get_child_index
Quaternion_get_child_index(name) ==
  IF name = <<"w">> THEN PyInt(0)
  ELSE IF name = <<"i">> THEN PyInt(1)
  ELSE IF name = <<"j">> THEN PyInt(2)
  ELSE IF name = <<"k">> THEN PyInt(3)
  ELSE PyInt(-1)

\* The fixed string quaternion_summary returns from its except clause.
Placeholder ==
  <<"Q", "u", "a", "t", "e", "r", "n", "i", "o", "n", "(", "e", "r", "r", ")">>

\* SummaryTerm with the zero test made on the truncated value (int(v) == 0).
SummaryTerm_truncated_zero(result, v, name) ==
  IF v.cls = "fin" /\ v.mag < 2 THEN result
  ELSE LET space == IF result # <<>> THEN <<" ">> ELSE <<>>
           signed == IF IsNegative(v) THEN result \o space \o <<"-">>
                     ELSE IF result # <<>> THEN result \o space \o <<"+">>
                     ELSE result
       IN signed \o space \o FloatStr(Abs(v)) \o name

\* SummaryTerm with "+" written before every term that is not negative.
SummaryTerm_always_signed(result, v, name) ==
  IF IsZero(v) THEN result
  ELSE LET space == IF result # <<>> THEN <<" ">> ELSE <<>>
           signed == IF IsNegative(v) THEN result \o space \o <<"-">>
                     ELSE result \o space \o <<"+">>
       IN signed \o space \o FloatStr(Abs(v)) \o name

\* SummaryTerm with the sign written against the magnitude.
SummaryTerm_tight_sign(result, v, name) ==
  IF IsZero(v) THEN result
  ELSE LET space == IF result # <<>> THEN <<" ">> ELSE <<>>
           signed == IF IsNegative(v) THEN result \o space \o <<"-">>
                     ELSE IF result # <<>> THEN result \o space \o <<"+">>
                     ELSE result
       IN signed \o FloatStr(Abs(v)) \o name

\* SummaryTerm without the test for 0.
SummaryTerm_keeps_zero(result, v, name) ==
  LET space == IF result # <<>> THEN <<" ">> ELSE <<>>
      signed == IF IsNegative(v) THEN result \o space \o <<"-">>
                ELSE IF result # <<>> THEN result \o space \o <<"+">>
                ELSE result
  IN signed \o space \o FloatStr(Abs(v)) \o name

\* One pass of the loop body of quaternion_summary over (v, name).
SummaryTerm(result, v, name) ==
  IF IsZero(v) THEN result
  ELSE LET space == IF result # <<>> THEN <<" ">> ELSE <<>>
           signed == IF IsNegative(v) THEN result \o space \o <<"-">>
                     ELSE IF result # <<>> THEN result \o space \o <<"+">>
                     ELSE result
       IN signed \o space \o FloatStr(Abs(v)) \o name

\* The try block of quaternion_summary: the summary, or the first exception
\* raised while the four components are read in the order w, i, j, k.
quaternion_summary_try(obj) ==
  LET q == Quaternion_init(obj)
      w == PyFloat(GetValue(q.w))
      i == PyFloat(GetValue(q.i))
      j == PyFloat(GetValue(q.j))
      k == PyFloat(GetValue(q.k))
  IN IF w.type = "raise" THEN w
     ELSE IF i.type = "raise" THEN i
     ELSE IF j.type = "raise" THEN j
     ELSE IF k.type = "raise" THEN k
     ELSE LET r1 == SummaryTerm(<<>>, w.v, <<>>)
              r2 == SummaryTerm(r1, i.v, <<"i">>)
              r3 == SummaryTerm(r2, j.v, <<"j">>)
              r4 == SummaryTerm(r3, k.v, <<"k">>)
          IN IF r4 = <<>> THEN PyStr(<<"0">>) ELSE PyStr(r4)

\* quaternion_summary without its except clause.
quaternion_summary_no_except(obj) == quaternion_summary_try(obj)

\* quaternion_summary: the try block, with every exception turned into the
\* placeholder.
quaternion_summary(obj) ==
  LET r == quaternion_summary_try(obj)
  IN IF r.type = "raise" THEN PyStr(Placeholder) ELSE r

\* ------------------------------------------- inspected quaternion values

FloatMember(v) == [st |-> "float", v |-> v]
\* A sub-field the debug information does not have.
AbsentMember == [st |-> "absent", v |-> PZero]
\* A sub-field whose displayed value is not a number.
GarbledMember == [st |-> "garbled", v |-> PZero]

\* The quaternion values the debugger may hand in, with sub-field values
\* drawn from `floats`: member "0" present with each sub-field a float,
\* absent or unparsable, or member "0" missing altogether.
QuaternionValues(floats) ==
  {[type |-> "Quaternion", has0 |-> TRUE, members |-> m] :
     m \in [QFields -> {FloatMember(v) : v \in floats}
                         \cup {AbsentMember, GarbledMember}]}
    \cup {[type |-> "Quaternion", has0 |-> FALSE,
           members |-> [f \in QFields |-> AbsentMember]]}

\* ------------------------------------------------ summary specification

SummaryInit ==
  /\ valobj \in QuaternionValues(Floats)
  /\ self = NoSelf
  /\ call = NoCall
  /\ ret = None

\* The debugger asks for the one-line summary of the value.
Summarize ==
  /\ call' = [op |-> "quaternion_summary"]
  /\ ret' = quaternion_summary(Root)
  /\ UNCHANGED <<valobj, self>>

SummaryNext == Summarize

SummarySpec == SummaryInit /\ [][SummaryNext]_vars

\* ----------------------------------------------- reading a summary back

\* The components in the order the summary walks them: w, i, j, k are the
\* sub-fields x, y, z, w of member "0".
FieldOrder == <<"x", "y", "z", "w">>
TermSuffix == << <<>>, <<"i">>, <<"j">>, <<"k">> >>

Comp(n) == valobj.members[FieldOrder[n]].v

\* Every sub-field can be looked up and read as a float.
Readable ==
  valobj.has0 /\ \A f \in QFields : valobj.members[f].st = "float"

\* Some lookup fails or some displayed value is no number.
Unreadable == ~Readable

\* The positions (1..4) of the components that are not 0, in order.
Nonzero == SelectSeq(<<1, 2, 3, 4>>, LAMBDA n : ~IsZero(Comp(n)))

Summarized == call.op = "quaternion_summary"

\* The inspected value is the readable quaternion (w, i, j, k), each given
\* as a whole number.
Whole(n) == FinFloat(n < 0, 2 * (IF n < 0 THEN -n ELSE n))
IsQuaternion(w, i, j, k) ==
  /\ Readable
  /\ Comp(1) = Whole(w) /\ Comp(2) = Whole(i)
  /\ Comp(3) = Whole(j) /\ Comp(4) = Whole(k)

RECURSIVE Tokens(_)
\* The pieces of s between its spaces (an empty piece between two adjacent
\* spaces, or at either end).
Tokens(s) ==
  IF \A p \in 1..Len(s) : s[p] # " " THEN <<s>>
  ELSE LET p == CHOOSE q \in 1..Len(s) :
                  s[q] = " " /\ \A r \in 1..(q - 1) : s[r] # " "
       IN <<SubSeq(s, 1, p - 1)>> \o Tokens(SubSeq(s, p + 1, Len(s)))

\* The suffix letter a term ends in; none for the real term.
SuffixOf(t) ==
  IF t # <<>> /\ t[Len(t)] \in {"i", "j", "k"} THEN <<t[Len(t)]>> ELSE <<>>

\* The suffixes of the terms of a summary: the terms are pieces 1, 3, 5, ...
TermSuffixes(s) ==
  LET t == Tokens(s)
  IN [m \in 1..((Len(t) + 1) \div 2) |-> SuffixOf(t[2 * m - 1])]

Contains(s, c) == \E p \in 1..Len(s) : s[p] = c

\* ------------------------------------------------------------- claim C1

\* C1: quaternion_summary never lets an exception out, and whenever the
\* lookup of member "0" or of a sub-field fails, or a component's displayed
\* value is not a number, it returns the placeholder "Quaternion(err)".
C1_SummaryFailsToPlaceholder ==
  Summarized =>
    /\ ret.type = "str"
    /\ Unreadable => ret.str = Placeholder

C1_Witness ==
  /\ Summarized /\ Unreadable
  /\ valobj.has0
  /\ valobj.members["y"].st = "absent"
  /\ valobj.members["w"].st = "garbled"
  /\ ret = PyStr(Placeholder)

\* ------------------------------------------------------------- claim C3

\* C3: for readable components, the summary is "0" exactly when all four
\* are 0, and otherwise its terms are those of the nonzero components, in
\* order: a component that is 0 contributes no term.
C3_ZeroTermsOmitted ==
  (Summarized /\ Readable) =>
    /\ ret.type = "str"
    /\ (ret.str = <<"0">>) <=> (Nonzero = <<>>)
    /\ Nonzero # <<>> =>
         TermSuffixes(ret.str) = [m \in 1..Len(Nonzero) |-> TermSuffix[Nonzero[m]]]

C3_Witness ==
  /\ Summarized /\ Readable
  /\ IsZero(Comp(1)) /\ ~IsZero(Comp(2)) /\ IsZero(Comp(3)) /\ ~IsZero(Comp(4))
  /\ TermSuffixes(ret.str) = << <<"i">>, <<"k">> >>

\* ------------------------------------------------------------- claim C4

\* The first emitted term never starts with "+" or a space and starts with
\* "-" exactly when its value is negative; a summary of one nonzero
\* component is an optional "-", the magnitude and the suffix.
FirstTermShape ==
  (Summarized /\ Readable /\ Nonzero # <<>>) =>
    LET first == Comp(Nonzero[1])
    IN /\ ret.type = "str"
       /\ ret.str # <<>>
       /\ Head(ret.str) \notin {"+", " "}
       /\ (Head(ret.str) = "-") <=> IsNegative(first)
       /\ Len(Nonzero) = 1 =>
            /\ ret.str = (IF IsNegative(first) THEN <<"-">> ELSE <<>>)
                           \o FloatStr(Abs(first)) \o TermSuffix[Nonzero[1]]
            /\ ~Contains(ret.str, "+")
            /\ ~Contains(ret.str, " ")

\* C4 as stated: the shape of the first term, with (1,0,0,0) giving "1"
\* and (0,-2,0,0) giving "-2i".
C4_FirstTermAsStated ==
  /\ FirstTermShape
  /\ (Summarized /\ IsQuaternion(1, 0, 0, 0)) => ret = PyStr(<<"1">>)
  /\ (Summarized /\ IsQuaternion(0, -2, 0, 0)) => ret = PyStr(<<"-", "2", "i">>)

\* C4, amended: the shape of the first term, with (1,0,0,0) giving "1.0"
\* and (0,-2,0,0) giving "-2.0i": the magnitude is printed as a float.
C4_FirstTerm ==
  /\ FirstTermShape
  /\ (Summarized /\ IsQuaternion(1, 0, 0, 0)) => ret = PyStr(<<"1", ".", "0">>)
  /\ (Summarized /\ IsQuaternion(0, -2, 0, 0)) =>
       ret = PyStr(<<"-", "2", ".", "0", "i">>)

C4_Witness ==
  /\ Summarized /\ IsQuaternion(0, -2, 0, 0)
  /\ ret = PyStr(<<"-", "2", ".", "0", "i">>)

\* ------------------------------------------------------------- claim C5

\* C5: every emitted term after the first is one space, "+" for a positive
\* or "-" for a negative value, one space, then the absolute value and the
\* term's suffix: split at its spaces, the summary is term, sign, term, ...
\* with no empty piece.
C5_LaterTerms ==
  (Summarized /\ Readable /\ Nonzero # <<>>) =>
    LET t == Tokens(ret.str)
    IN /\ Len(t) = 2 * Len(Nonzero) - 1
       /\ \A m \in 2..Len(Nonzero) :
            LET v == Comp(Nonzero[m])
            IN /\ t[2 * m - 2] \in {<<"+">>, <<"-">>}
               /\ IsPositive(v) => t[2 * m - 2] = <<"+">>
               /\ IsNegative(v) => t[2 * m - 2] = <<"-">>
               /\ t[2 * m - 1] = FloatStr(Abs(v)) \o TermSuffix[Nonzero[m]]

C5_Witness ==
  /\ Summarized /\ Readable
  /\ Len(Nonzero) = 3
  /\ IsPositive(Comp(Nonzero[2])) /\ IsNegative(Comp(Nonzero[3]))
  /\ Len(Tokens(ret.str)) = 5

\* ------------------------------------------------------------- claim C6

\* C6 as stated: (1,2,0,-3) gives "1 +2i -3k", the sign written against
\* the magnitude.
C6_ExampleAsStated ==
  (Summarized /\ IsQuaternion(1, 2, 0, -3)) =>
    ret = PyStr(<<"1", " ", "+", "2", "i", " ", "-", "3", "k">>)

\* C6, amended: (1,2,0,-3) gives "1.0 + 2.0i - 3.0k": the zero j-term is
\* omitted, and each later term is a space, its sign, a space, then the
\* magnitude, printed as a float, and the suffix.
C6_Example ==
  (Summarized /\ IsQuaternion(1, 2, 0, -3)) =>
    ret = PyStr(<<"1", ".", "0", " ", "+", " ", "2", ".", "0", "i",
                  " ", "-", " ", "3", ".", "0", "k">>)

C6_Witness ==
  /\ Summarized /\ IsQuaternion(1, 2, 0, -3)
  /\ ret.type = "str" /\ ~Contains(ret.str, "j")

\* ------------------------------------------ pointer-backed values (Mat4,
\* Vec2, Vec3, Vec4): the members data_ptr and length

\* valobj.GetChildMemberWithName(m).GetValueAsUnsigned(), for m one of
\* 'data_ptr' and 'length'.
GetValueAsUnsigned(m) == IF m = "data_ptr" THEN valobj.data_ptr ELSE valobj.length

\* valobj.CreateValueFromAddress(name, ptr, type): the request for a value
\* of type `of` at address `ptr`, labelled `name`.
CreateValueFromAddress(name, ptr, of) ==
  [type |-> "SBValue", valid |-> TRUE, name |-> name, addr |-> ptr, of |-> of]

\* ------------------------------------------------------------------ Mat4

LENGTH == 16

\* Mat4.update
Mat4_update(obj) ==
  [cls |-> "Mat4",
   data_ptr |-> GetValueAsUnsigned("data_ptr"),
   length |-> GetValueAsUnsigned("length")]

\* Mat4.num_children
Mat4_num_children(m) == IF m.length = LENGTH THEN PyInt(4) ELSE PyInt(0)

\* Mat4.get_child_at_index
Mat4_get_child_at_index(m, index) ==
  IF index >= 0 \/ index < 4
  THEN LET offset == index * 4 * 4
           ptr == m.data_ptr + offset
       IN CreateValueFromAddress(<<"[">> \o IntStr(index) \o <<"]">>, ptr, "float[4]")
  ELSE None

\* Mat4.get_child_index
Mat4_get_child_index(name) ==
  IF name = <<"[", "0", "]">> THEN PyInt(0)
  ELSE IF name = <<"[", "1", "]">> THEN PyInt(1)
  ELSE IF name = <<"[", "2", "]">> THEN PyInt(2)
  ELSE IF name = <<"[", "3", "]">> THEN PyInt(3)
  ELSE PyInt(-1)

\* ------------------------------------------------------------------ Vec2

\* Vec2.update
Vec2_update(obj) ==
  [cls |-> "Vec2",
   data_ptr |-> GetValueAsUnsigned("data_ptr"),
   length |-> GetValueAsUnsigned("length")]

\* Vec2.num_children
Vec2_num_children(v) == PyInt(v.length)

\* Vec2.get_child_at_index
Vec2_get_child_at_index(v, index) ==
  IF index < 0 \/ index >= 3 THEN None
  ELSE IF v.data_ptr = 0 THEN None
  ELSE LET offset == index * 4
           ptr == v.data_ptr + offset
       IN IF index = 0 THEN CreateValueFromAddress(<<"x">>, ptr, "float")
          ELSE IF index = 1 THEN CreateValueFromAddress(<<"y">>, ptr, "float")
          ELSE None

\* Vec2.get_child_index
Vec2_get_child_index(name) ==
  IF name = <<"x">> THEN PyInt(0)
  ELSE IF name = <<"y">> THEN PyInt(1)
  ELSE IF name = <<"z">> THEN PyInt(2)
  ELSE PyInt(-1)

\* ------------------------------------------------------------------ Vec3

\* Vec3.update
Vec3_update(obj) ==
  [cls |-> "Vec3",
   data_ptr |-> GetValueAsUnsigned("data_ptr"),
   length |-> GetValueAsUnsigned("length")]

\* Vec3.num_children
Vec3_num_children(v) == PyInt(v.length)

\* Vec3.get_child_at_index
Vec3_get_child_at_index(v, index) ==
  IF index < 0 \/ index >= 3 THEN None
  ELSE IF v.data_ptr = 0 THEN None
  ELSE LET offset == index * 4
           ptr == v.data_ptr + offset
       IN IF index = 0 THEN CreateValueFromAddress(<<"x">>, ptr, "float")
          ELSE IF index = 1 THEN CreateValueFromAddress(<<"y">>, ptr, "float")
          ELSE IF index = 2 THEN CreateValueFromAddress(<<"z">>, ptr, "float")
          ELSE None

\* Vec3.get_child_index
Vec3_get_child_index(name) ==
  IF name = <<"x">> THEN PyInt(0)
  ELSE IF name = <<"y">> THEN PyInt(1)
  ELSE IF name = <<"z">> THEN PyInt(2)
  ELSE PyInt(-1)

\* ------------------------------------------------------------------ Vec4

\* Vec4.update
Vec4_update(obj) ==
  [cls |-> "Vec4",
   data_ptr |-> GetValueAsUnsigned("data_ptr"),
   length |-> GetValueAsUnsigned("length")]

\* Vec4.num_children
Vec4_num_children(v) == PyInt(v.length)

\* Vec4.get_child_at_index
Vec4_get_child_at_index(v, index) ==
  IF index < 0 \/ index >= 4 THEN None
  ELSE IF v.data_ptr = 0 THEN None
  ELSE LET offset == index * 4
           ptr == v.data_ptr + offset
       IN IF index = 0 THEN CreateValueFromAddress(<<"x">>, ptr, "float")
          ELSE IF index = 1 THEN CreateValueFromAddress(<<"y">>, ptr, "float")
          ELSE IF index = 2 THEN CreateValueFromAddress(<<"z">>, ptr, "float")
          ELSE IF index = 3 THEN CreateValueFromAddress(<<"w">>, ptr, "float")
          ELSE None

\* Vec4.get_child_index
Vec4_get_child_index(name) ==
  IF name = <<"x">> THEN PyInt(0)
  ELSE IF name = <<"y">> THEN PyInt(1)
  ELSE IF name = <<"z">> THEN PyInt(2)
  ELSE IF name = <<"w">> THEN PyInt(3)
  ELSE PyInt(-1)

\* ------------------------------------- the registered synthetic providers

\* "type synthetic add -l <module>.<class> -x <type name>": the class the
\* debugger instantiates for a value of each type, and the method each call
\* on the instance reaches.
update(cls, obj) ==
  CASE cls = "Quaternion" -> Quaternion_update(obj)
    [] cls = "Mat4" -> Mat4_update(obj)
    [] cls = "Vec2" -> Vec2_update(obj)
    [] cls = "Vec3" -> Vec3_update(obj)
    [] cls = "Vec4" -> Vec4_update(obj)

num_children(s) ==
  CASE s.cls = "Quaternion" -> Quaternion_num_children(s)
    [] s.cls = "Mat4" -> Mat4_num_children(s)
    [] s.cls = "Vec2" -> Vec2_num_children(s)
    [] s.cls = "Vec3" -> Vec3_num_children(s)
    [] s.cls = "Vec4" -> Vec4_num_children(s)

get_child_at_index(s, index) ==
  CASE s.cls = "Quaternion" -> Quaternion_get_child_at_index(s, index)
    [] s.cls = "Mat4" -> Mat4_get_child_at_index(s, index)
    [] s.cls = "Vec2" -> Vec2_get_child_at_index(s, index)
    [] s.cls = "Vec3" -> Vec3_get_child_at_index(s, index)
    [] s.cls = "Vec4" -> Vec4_get_child_at_index(s, index)

get_child_index(s, name) ==
  CASE s.cls = "Quaternion" -> Quaternion_get_child_index(name)
    [] s.cls = "Mat4" -> Mat4_get_child_index(name)
    [] s.cls = "Vec2" -> Vec2_get_child_index(name)
    [] s.cls = "Vec3" -> Vec3_get_child_index(name)
    [] s.cls = "Vec4" -> Vec4_get_child_index(name)

\* ------------------------------------------------ provider specification

\* Component values of the quaternions the providers are exercised on.
ProviderFloats == {PZero, FinFloat(FALSE, 1)}

PointerTypes == {"Mat4", "Vec2", "Vec3", "Vec4"}
\* Values of the data_ptr member: null and two addresses.
DataPtrs == {0, 64, 4096}
\* Values of the length member.
Lengths == {0, 2, 3, 4, LENGTH}

PointerValues ==
  {[type |-> t, data_ptr |-> p, length |-> l] :
     t \in PointerTypes, p \in DataPtrs, l \in Lengths}

\* The child names the debugger asks a provider for: the names of the
\* type's components, those of the other types, and names of no component.
Names(cls) ==
  IF cls = "Mat4"
  THEN {<<"[", "0", "]">>, <<"[", "1", "]">>, <<"[", "2", "]">>,
        <<"[", "3", "]">>, <<"[", "4", "]">>, <<"[", "-", "1", "]">>,
        <<"0">>, <<"[", "]">>, <<>>}
  ELSE {<<"w">>, <<"i">>, <<"j">>, <<"k">>, <<"x">>, <<"y">>, <<"z">>,
        <<"r">>, <<"0">>, <<"w", "i">>, <<"x", "y">>, <<>>}

Indices == (-MaxIndex)..MaxIndex

\* What the debugged process may turn the value into while it runs: the
\* type and its debug information stay, the contents change.
Successors(v) ==
  IF v.type = "Quaternion"
  THEN {u \in QuaternionValues(ProviderFloats) :
          /\ u.has0 = v.has0
          /\ \A f \in QFields : u.members[f].st = v.members[f].st}
  ELSE {u \in PointerValues : u.type = v.type}

Init ==
  /\ valobj \in QuaternionValues(ProviderFloats) \cup PointerValues
  /\ self = NoSelf
  /\ call = NoCall
  /\ ret = None

\* The debugger instantiates the provider registered for the value's type:
\* __init__ stores valobj and calls update.
Construct ==
  /\ self = NoSelf
  /\ self' = update(valobj.type, Root)
  /\ call' = [op |-> "__init__"]
  /\ ret' = None
  /\ UNCHANGED valobj

\* The debugger calls update on the instance.
Update ==
  /\ self # NoSelf
  /\ self' = update(self.cls, Root)
  /\ call' = [op |-> "update"]
  /\ ret' = None
  /\ UNCHANGED valobj

NumChildren ==
  /\ self # NoSelf
  /\ call' = [op |-> "num_children"]
  /\ ret' = num_children(self)
  /\ UNCHANGED <<valobj, self>>

GetChildAtIndex ==
  /\ self # NoSelf
  /\ \E index \in Indices :
       /\ call' = [op |-> "get_child_at_index", index |-> index]
       /\ ret' = get_child_at_index(self, index)
  /\ UNCHANGED <<valobj, self>>

GetChildIndex ==
  /\ self # NoSelf
  /\ \E name \in Names(self.cls) :
       /\ call' = [op |-> "get_child_index", name |-> name]
       /\ ret' = get_child_index(self, name)
  /\ UNCHANGED <<valobj, self>>

\* The debugged process runs and stops again.
DebuggeeStep ==
  /\ valobj' \in Successors(valobj)
  /\ UNCHANGED <<self, call, ret>>

Next ==
  \/ Construct
  \/ Update
  \/ NumChildren
  \/ GetChildAtIndex
  \/ GetChildIndex
  \/ DebuggeeStep

Spec == Init /\ [][Next]_vars

\* ------------------------------------------------------------- claim C2

\* Member "0" or one of its four sub-fields is missing from the value.
LookupFails ==
  /\ valobj.type = "Quaternion"
  /\ \/ ~valobj.has0
     \/ \E f \in QFields : valobj.members[f].st = "absent"

\* C2: when the inspected value lacks member "0" or one of its sub-fields,
\* constructing the Quaternion provider raises nothing and
\* get_child_at_index returns None for every index in [0,4).
C2_LookupFailureGivesNone ==
  LookupFails =>
    /\ ret.type # "raise"
    /\ (call.op = "get_child_at_index" /\ call.index \in 0..3) => ret = None

\* ------------------------------------------------------------- claim C7

\* Member "0" and its four sub-fields are all there.
WellFormed ==
  /\ valobj.type = "Quaternion"
  /\ valobj.has0
  /\ \A f \in QFields : valobj.members[f].st # "absent"

ChildNames == << <<"w">>, <<"i">>, <<"j">>, <<"k">> >>

\* C7: for a well-formed quaternion, whatever its component values,
\* num_children returns 4, and get_child_at_index(n), n in [0,4), returns a
\* child named "w", "i", "j", "k" in that order, a name get_child_index
\* maps back to n.
C7_ChildNamesRoundTrip ==
  (WellFormed /\ self # NoSelf) =>
    /\ call.op = "num_children" => ret = PyInt(4)
    /\ (call.op = "get_child_at_index" /\ call.index \in 0..3) =>
         /\ ret.type = "SBValue"
         /\ ret.valid
         /\ ret.name = ChildNames[call.index + 1]
         /\ get_child_index(self, ret.name) = PyInt(call.index)

C7_Witness ==
  /\ WellFormed /\ self # NoSelf
  /\ call.op = "get_child_at_index" /\ call.index = 3
  /\ ret.type = "SBValue" /\ ret.valid /\ ret.name = <<"k">>
  /\ get_child_index(self, ret.name) = PyInt(3)
  /\ \A f \in QFields : IsZero(valobj.members[f].v)

\* ------------------------------------------------------------- claim C8

\* C8: on a Quaternion provider, get_child_at_index returns None for every
\* index < 0 or >= 4, get_child_index returns -1 for every name other than
\* "w", "i", "j", "k", and neither raises.
C8_OutOfDomainSentinels ==
  (self # NoSelf /\ self.cls = "Quaternion") =>
    /\ ret.type # "raise"
    /\ (call.op = "get_child_at_index" /\ call.index \notin 0..3) => ret = None
    /\ (call.op = "get_child_index"
          /\ call.name \notin {<<"w">>, <<"i">>, <<"j">>, <<"k">>}) =>
         ret = PyInt(-1)

C8_Witness ==
  /\ self # NoSelf /\ self.cls = "Quaternion"
  /\ call.op = "get_child_at_index" /\ call.index = -1
  /\ ret = None

\* ------------------------------------------------------------- claim C9

\* C9: Mat4.get_child_at_index returns None for every index outside [0,4)
\* and builds a row at data_ptr + index*16 only for an index in [0,4), so
\* never at an address outside the 64 bytes of the matrix.
C9_Mat4OutOfRangeIsNone ==
  (self # NoSelf /\ self.cls = "Mat4" /\ call.op = "get_child_at_index") =>
    /\ call.index \notin 0..3 => ret = None
    /\ ret # None =>
         /\ ret.addr >= self.data_ptr
         /\ ret.addr + 16 <= self.data_ptr + 64

\* ------------------------------------------------------------ claim C10

\* C10: in Vec2, Vec3 and Vec4 with a non-null data_ptr, for every name
\* that get_child_index maps to an n >= 0, get_child_at_index(n) returns a
\* child labelled with that name, at address data_ptr + 4*n.
C10_VecNameAndIndexAgree ==
  (/\ self # NoSelf
   /\ self.cls \in {"Vec2", "Vec3", "Vec4"}
   /\ self.data_ptr # 0
   /\ call.op = "get_child_at_index"
   /\ call.index >= 0) =>
    \A name \in Names(self.cls) :
      get_child_index(self, name) = PyInt(call.index) =>
        /\ ret.type = "SBValue"
        /\ ret.name = name
        /\ ret.addr = self.data_ptr + 4 * call.index

====
